---- MODULE Spec2Model ----
(***************************************************************************)
(* Verification model of the translation pipeline of My-novels:            *)
(*   - RateLimiter (translate_epub.py, tr_cerebras.py)                     *)
(*   - process_chapter / process_book (translate_epub.py, tr_cerebras.py,  *)
(*     uni.py)                                                             *)
(***************************************************************************)
EXTENDS Integers, Sequences, FiniteSets, TLC

(***************************************************************************)
(* Bounds of the model.  The limits of the limiter are constructor         *)
(* arguments (10 / 100000 in translate_epub.py, 30 / 64000 in              *)
(* tr_cerebras.py); the model runs the same code with small limits.        *)
(***************************************************************************)
rpm_limit == 2
tpm_limit == 3
\* seconds by which one step of the clock advances time.time()
TickStep == 20
\* calls of wait_if_needed over one run of the limiter
MaxCalls == rpm_limit + 2

\* translate_epub.py:79 and tr_cerebras.py:173: the window, in seconds
WINDOW == 60

\* the threads that call the limiter
Threads == {1, 2}
\* estimated_tokens of a call: none, small, the whole budget, more than the budget
Costs == {0, 1, tpm_limit, tpm_limit + 1}
RLVariants == {"translate_epub", "tr_cerebras"}

VARIABLES
  rl_variant,          \* which file's RateLimiter this is
  request_timestamps,  \* list of the ages (now - t, capped at WINDOW) of the recorded requests
  token_timestamps,    \* list of <<age, token_count>>
  lock,                \* self.lock: the thread holding it, 0 when free
  rl_pc,               \* position of each thread in wait_if_needed
  rl_est,              \* estimated_tokens of each thread's call
  sleep_left,          \* seconds a sleeping thread still has to sleep
  log                  \* history: <<age, cost>> of every committed call, oldest first

rlVars == <<rl_variant, request_timestamps, token_timestamps, lock, rl_pc, rl_est,
            sleep_left, log>>

(***************************************************************************)
(* The pipeline: process_book and process_chapter of the three variants.   *)
(***************************************************************************)
Variants == {"translate_epub", "tr_cerebras", "uni"}

\* the chapter numbers of the book's raw_chapters/chapter_NNN.txt files
Chapters == {1, 2}
ChapterSeq == <<1, 2>>

\* uni.py:23 sets 40; the model runs the same code with a small request limit
DAILY_REQUEST_LIMIT == 3
\* uni.py:24
DAILY_TOKEN_LIMIT == 200000

VARIABLES
  variant,           \* which of the three scripts runs
  args,              \* the parsed command line of the run
  file,              \* translated_chapters/chapter_NNN.txt: a text, or "nofile"
  glossary,          \* the in-memory glossary dict of process_book
  glossary_file,     \* glossary.json
  pc,                \* position of process_book
  queue,             \* chapters_to_translate
  qi,                \* index in queue of the unit the for loop of process_book is at
  upc,               \* position of process_chapter in its attempt
  attempt,           \* the loop variable of `for attempt in range(max_retries)`
  resp,              \* the parsed response of the current attempt
  slept,             \* seconds of the last time.sleep of process_chapter
  session_requests,  \* uni.py global
  session_tokens,    \* uni.py global
  outcome,           \* how process_chapter ended for each chapter in this run
  hist,              \* history of the unit last started: calls, reservations, texts returned
  run,               \* how many times the script has been started on the book
  prev,              \* outcome of the run before this one
  failed,            \* the audit report of tr_cerebras.py: its passed and failed counts
  raw,               \* raw_chapters/chapter_NNN.txt of the book: the text of each
  book,              \* main: index in subdirs of the book process_book is called on
  site_log           \* how each generate_site call of this process ended, in order

pipeVars == <<variant, args, file, glossary, glossary_file, pc, queue, qi, upc, attempt,
              resp, slept, session_requests, session_tokens, outcome, hist, run, prev, failed,
              raw, book, site_log>>

\* the glossary merge of process_chapter run by two threads on one glossary dict
VARIABLES
  mg_pc,             \* position of each thread in the merge of its accepted response
  mg_lock,           \* glossary_lock: 0 when free, else the thread that holds it
  mg_terms,          \* new_terms_list of each thread's response
  mg_snap,           \* what json.dump of each thread has serialised
  mg_order           \* the threads in the order in which they merged

mergeVars == <<mg_pc, mg_lock, mg_terms, mg_snap, mg_order>>

\* the validators and filters applied alone to one input
VARIABLES
  fn_in,             \* the arguments of the call
  fn_out             \* what the call returned; <<>> before the call

fnVars == <<fn_in, fn_out>>

\* gui.TranslationApp and the subprocesses it starts
VARIABLES
  start_btn,         \* state of the Start Translation button
  open_site_btn,     \* state of the Open Website button
  run_pc,            \* position of the run_process thread; "none" when there is none
  process,           \* the Popen object of that thread: its state and return code
  orphans,           \* subprocesses still running whose thread has ended
  after_queue,       \* return codes of the on_process_complete calls queued by root.after
  launches,          \* threads started so far
  zero_exits         \* runs that have exited with code 0 so far

guiVars == <<start_btn, open_site_btn, run_pc, process, orphans, after_queue, launches,
             zero_exits>>

vars == <<rlVars, pipeVars, mergeVars, fnVars, guiVars>>

----------------------------------------------------------------------------
(* helpers *)

Min(a, b) == IF a < b THEN a ELSE b
Max(a, b) == IF a > b THEN a ELSE b

RECURSIVE SumSeq(_)
SumSeq(s) == IF s = <<>> THEN 0 ELSE Head(s) + SumSeq(Tail(s))

Costs_of(toks) == [i \in 1..Len(toks) |-> toks[i][2]]


----------------------------------------------------------------------------
(* Texts, responses, glossary *)

\* The texts the provider returns and the files hold, by what validate_translation
\* looks at: length in characters, non-blank lines, the <<END_OF_CHAPTER>> marker,
\* a legacy "end of chapter" phrase, a refusal phrase, a repetition loop.
Texts == {"good", "nomarker", "short", "legacy", "empty"}
NoFile == "nofile"
NoText == "notext"

Feat(t) ==
  CASE t = "good"     -> [len |-> 75000, lines |-> 30, marker |-> TRUE,  legacy |-> FALSE,
                          refusal |-> FALSE, halluc |-> FALSE, blank |-> FALSE]
    [] t = "nomarker" -> [len |-> 75000, lines |-> 30, marker |-> FALSE, legacy |-> FALSE,
                          refusal |-> FALSE, halluc |-> FALSE, blank |-> FALSE]
    [] t = "short"    -> [len |-> 25000, lines |-> 30, marker |-> TRUE,  legacy |-> FALSE,
                          refusal |-> FALSE, halluc |-> FALSE, blank |-> FALSE]
    [] t = "legacy"   -> [len |-> 75000, lines |-> 30, marker |-> FALSE, legacy |-> TRUE,
                          refusal |-> FALSE, halluc |-> FALSE, blank |-> FALSE]
    [] OTHER          -> [len |-> 0,     lines |-> 0,  marker |-> FALSE, legacy |-> FALSE,
                          refusal |-> FALSE, halluc |-> FALSE, blank |-> TRUE]

\* the raw chapter (a long one, of 50000 characters): its length, its non-blank
\* lines, the glossary terms it contains
Terms == {"k1", "k2"}
Source(c) == [len |-> 50000, lines |-> 30, terms |-> IF c = 1 THEN {"k1"} ELSE {"k1", "k2"}]

\* the least number of non-blank source lines from which the line count is compared
min_source_lines(v) == IF v = "translate_epub" THEN 10 ELSE 20

\* the raw chapter files as the book has them: every chapter holds its source
RawChapters == [c \in Chapters |-> Source(c)]

\* validate_translation on the content f of a file that could be read: "ok" where
\* it returns True, else the check whose message it prints before it returns
\* False. f.blank is `not content.strip()`, f.refusal and f.halluc are what
\* check_refusal(content) and check_hallucination(content) return, f.legacy is
\* "end of chapter" in content.lower(); withSource is `if source_text:` with a
\* source_text given, and src.len > 0 is that it is not the empty string
validation_result_MarkerFirst(v, f, src, withSource) ==
  IF f.blank THEN "empty"
  ELSE IF f.refusal THEN "refusal"
  ELSE IF f.halluc THEN "hallucination"
  ELSE IF f.marker THEN "ok"
  ELSE IF v = "translate_epub" /\ f.legacy THEN "ok"
  ELSE IF withSource /\ src.len > 0 /\ 10 * f.len < 6 * src.len THEN "too_short"
  ELSE IF withSource /\ src.len > 0 /\ src.lines > min_source_lines(v)
          /\ 2 * f.lines < src.lines THEN "lost_lines"
  ELSE "no_marker"

validation_result_NoMarker(v, f, src, withSource) ==
  IF f.blank THEN "empty"
  ELSE IF f.refusal THEN "refusal"
  ELSE IF f.halluc THEN "hallucination"
  ELSE IF withSource /\ src.len > 0 /\ 10 * f.len < 6 * src.len THEN "too_short"
  ELSE IF withSource /\ src.len > 0 /\ src.lines > min_source_lines(v)
          /\ 2 * f.lines < src.lines THEN "lost_lines"
  ELSE "ok"

validation_result_NoRatio(v, f, src, withSource) ==
  IF f.blank THEN "empty"
  ELSE IF f.refusal THEN "refusal"
  ELSE IF f.halluc THEN "hallucination"
  ELSE IF withSource /\ src.len > 0 /\ src.lines > min_source_lines(v)
          /\ 2 * f.lines < src.lines THEN "lost_lines"
  ELSE IF f.marker THEN "ok"
  ELSE IF v = "translate_epub" /\ f.legacy THEN "ok"
  ELSE "no_marker"

validation_result_NoLines(v, f, src, withSource) ==
  IF f.blank THEN "empty"
  ELSE IF f.refusal THEN "refusal"
  ELSE IF f.halluc THEN "hallucination"
  ELSE IF withSource /\ src.len > 0 /\ 10 * f.len < 6 * src.len THEN "too_short"
  ELSE IF f.marker THEN "ok"
  ELSE IF v = "translate_epub" /\ f.legacy THEN "ok"
  ELSE "no_marker"

validation_result(v, f, src, withSource) ==
  IF f.blank THEN "empty"
  ELSE IF f.refusal THEN "refusal"
  ELSE IF f.halluc THEN "hallucination"
  ELSE IF withSource /\ src.len > 0 /\ 10 * f.len < 6 * src.len THEN "too_short"
  ELSE IF withSource /\ src.len > 0 /\ src.lines > min_source_lines(v)
          /\ 2 * f.lines < src.lines THEN "lost_lines"
  ELSE IF f.marker THEN "ok"
  ELSE IF v = "translate_epub" /\ f.legacy THEN "ok"
  ELSE "no_marker"

\* validate_translation(filepath, source_text) of each variant; withSource is FALSE
\* for the call without source_text
validate_translation(v, t, src, withSource) ==
  IF t = NoFile THEN FALSE                      \* open() raises, caught: return False
  ELSE validation_result(v, Feat(t), src, withSource) = "ok"

\* new_terms entries: {"original_term": k, "english_translation": e}; ok is FALSE
\* for an entry that lacks one of the two keys
Entry(k, e) == [ok |-> TRUE, original_term |-> k, english_translation |-> e]
BadEntry == [ok |-> FALSE, original_term |-> "k1", english_translation |-> "a"]
NewTermsOptions ==
  { [present |-> FALSE, list |-> <<>>],
    [present |-> TRUE,  list |-> <<>>],
    [present |-> TRUE,  list |-> <<Entry("k1", "a")>>],
    [present |-> TRUE,  list |-> <<Entry("k1", "a"), Entry("k1", "b")>>],
    [present |-> TRUE,  list |-> <<Entry("k2", "a")>>],
    [present |-> TRUE,  list |-> <<BadEntry>>] }

\* what the provider call returns: a body that json.loads rejects, an object
\* without "translated_text", or an object with a text
ProviderTexts == {"good", "nomarker", "short"}
Responses ==
  [kind : {"bad_json"}, text : {NoText}, new_terms : {[present |-> FALSE, list |-> <<>>]}]
  \cup [kind : {"no_text"}, text : {NoText}, new_terms : {[present |-> FALSE, list |-> <<>>]}]
  \cup [kind : {"text"}, text : ProviderTexts, new_terms : NewTermsOptions]
NoResp == [kind |-> "none", text |-> NoText, new_terms |-> [present |-> FALSE, list |-> <<>>]]

\* response.usage.total_tokens of uni.py; 0 stands for a response without usage
Usages == {0, 67000}

\* the glossary dict: "-" marks a key that is absent
EmptyGlossary == [k \in Terms |-> "-"]

RECURSIVE UniqueTerms(_)
\* {t['original_term']: t['english_translation'] for t in new_terms_list}
UniqueTerms(list) ==
  IF list = <<>> THEN EmptyGlossary
  ELSE LET last == list[Len(list)]
       IN  [UniqueTerms(SubSeq(list, 1, Len(list) - 1))
              EXCEPT ![last.original_term] = last.english_translation]

\* the comprehension raises KeyError when an entry lacks a key
TermsWellFormed(list) == \A i \in 1..Len(list) : list[i].ok

\* mutant: a key the glossary already holds is not overwritten
MergeTerms_KeepOld(g, list) ==
  LET u == UniqueTerms(list) IN [k \in Terms |-> IF g[k] # "-" THEN g[k] ELSE u[k]]

\* for k, v in unique_terms.items(): glossary[k] = v
MergeTerms(g, list) ==
  LET u == UniqueTerms(list) IN [k \in Terms |-> IF u[k] # "-" THEN u[k] ELSE g[k]]

\* load_glossary: {} when glossary.json does not exist
load_glossary(gf) == IF gf.state = "ok" THEN gf.data ELSE EmptyGlossary

----------------------------------------------------------------------------
(* process_book: which chapters are queued *)

\* the command lines of a run: no option, or one of --force, --fix-only, --audit
\* (alone and with --force),
\* --chapters 2, --limit 1.  chapters is {} and limit is <<>> when the option is
\* not given (None); --limit L gives <<L>>
NoArgs == [force |-> FALSE, fix_only |-> FALSE, audit |-> FALSE, chapters |-> {},
           limit |-> <<>>]
ArgsSet == {NoArgs, [NoArgs EXCEPT !.force = TRUE], [NoArgs EXCEPT !.fix_only = TRUE],
            [NoArgs EXCEPT !.audit = TRUE], [NoArgs EXCEPT !.audit = TRUE, !.force = TRUE],
            [NoArgs EXCEPT !.chapters = {2}],
            [NoArgs EXCEPT !.limit = <<1>>]}

\* every combination of the flags, with the allow-lists over the two chapters and
\* the limits -1, 0, 1 (argparse takes any int)
Limits == {<<>>, <<-1>>, <<0>>, <<1>>}
AllArgs == [force : BOOLEAN, fix_only : BOOLEAN, audit : BOOLEAN,
            chapters : SUBSET Chapters, limit : Limits]

\* `if args.chapters and chapter_num not in args.chapters: continue`
Selected(a, c) == a.chapters = {} \/ c \in a.chapters

\* mutant: an existing translation is never looked at
Queued_Always(v, a, f, unreadable, c) == Selected(a, c)

\* the body of the classification loop for one chapter file: TRUE when it is
\* appended to chapters_to_translate.  unreadable holds the chapters whose raw file
\* cannot be read when process_book opens it.
Queued(v, a, f, unreadable, c) ==
  IF ~Selected(a, c) THEN FALSE
  ELSE IF v = "translate_epub" THEN
    IF f[c] # NoFile
      THEN a.force \/ ~validate_translation(v, f[c], Source(c), FALSE)
      ELSE ~a.fix_only
  ELSE IF v = "tr_cerebras" THEN
    IF c \in unreadable THEN FALSE
    ELSE IF f[c] # NoFile
      THEN a.force \/ (~validate_translation(v, f[c], Source(c), TRUE) /\ ~a.audit)
      ELSE ~(a.fix_only \/ a.audit)
  ELSE
    IF f[c] # NoFile /\ ~a.force
      THEN (a.audit \/ a.fix_only)
           /\ (c \in unreadable \/ ~validate_translation(v, f[c], Source(c), TRUE))
      ELSE TRUE

\* tr_cerebras.py: the existing translations that process_book validates
Validated(a, f, unreadable, c) ==
  /\ Selected(a, c)
  /\ c \notin unreadable
  /\ f[c] # NoFile
  /\ ~a.force

\* tr_cerebras.py: `failed += 1` for a validated translation found invalid
\* (`passed += 1` for the others)
CountedFailed(a, f, unreadable, c) ==
  /\ Validated(a, f, unreadable, c)
  /\ ~validate_translation("tr_cerebras", f[c], Source(c), TRUE)

\* no audit report printed
NoReport == [passed |-> 0, failed |-> 0]

\* q[:n] of Python
Slice(q, n) ==
  IF n >= 0 THEN SubSeq(q, 1, Min(n, Len(q))) ELSE SubSeq(q, 1, Max(Len(q) + n, 0))

\* mutant: the limit cuts the queue of an allow-list too
Truncates_AllowList(v, a) == a.limit # <<>> /\ a.limit[1] # 0

\* `if args.limit and not args.chapters` (None and 0 are false); tr_cerebras.py
\* returns under --audit before it gets there
Truncates(v, a) ==
  /\ a.limit # <<>> /\ a.limit[1] # 0
  /\ a.chapters = {}
  /\ ~(v = "tr_cerebras" /\ a.audit)

\* chapters_to_translate after the optional [:args.limit]
BuildQueue(v, a, f, unreadable) ==
  LET q == SelectSeq(ChapterSeq, LAMBDA c : Queued(v, a, f, unreadable, c))
  IN  IF Truncates(v, a) THEN Slice(q, a.limit[1]) ELSE q

\* mutant: --audit does not return before the loop
AuditReturns_Never(v, a) == FALSE

\* `if args.audit: return` of tr_cerebras.py and uni.py
AuditReturns(v, a) == v # "translate_epub" /\ a.audit

----------------------------------------------------------------------------
(* process_chapter *)

\* mutant: one attempt more than the source allows
max_retries_OneMore == (IF variant = "translate_epub" THEN 2 ELSE 3) + 1

\* max_retries of each variant
max_retries == IF variant = "translate_epub" THEN 2 ELSE 3

\* base_delay * (2 ** attempt) with base_delay = 10
Backoff(n) == 10 * (2 ^ n)

\* the sleep of the except branch
ErrSleep(kind) ==
  IF kind = "rate_limit"
    THEN (IF variant = "translate_epub" THEN Backoff(attempt) ELSE 30)
    ELSE 5

\* the sleep after a failed validation
RejectSleep == IF variant = "translate_epub" THEN 5 ELSE 2

\* uni.py: total_est = estimate_tokens(text) + 2000, estimate_tokens = int(len * 1.3)
total_est(c) == (Source(c).len * 13) \div 10 + 2000

\* uni.py check_session_limits
check_session_limits(est) ==
  IF session_requests >= DAILY_REQUEST_LIMIT THEN FALSE
  ELSE IF session_tokens + est >= DAILY_TOKEN_LIMIT THEN FALSE
  ELSE TRUE

\* mutant: the break is missing
StopsBook_Never(status) == FALSE

\* uni.py: `if status == "STOP": break`
StopsBook(status) == variant = "uni" /\ status = "STOP"

\* where process_book goes when process_chapter has ended with this status: an
\* exception leaves the loop (caught around the loop in translate_epub.py, not
\* caught in the other two), STOP breaks, anything else goes on with the next unit
BookAfter(status) ==
  IF status = "Raised" THEN (IF variant = "translate_epub" THEN "site" ELSE "crashed")
  ELSE IF StopsBook(status) THEN "site"
  ELSE IF qi < Len(queue) THEN "dispatch"
  ELSE "site"

qi_after_Same(status) == qi

\* the index of the for loop after a unit: the next one while the loop goes on
qi_after(status) == IF BookAfter(status) = "dispatch" THEN qi + 1 ELSE qi

\* the unit the for loop of process_book is at
Cur == queue[qi]

FirstStep_Call == "call"

\* the first statement of an attempt: the reservation, where there is a limiter
FirstStep == IF variant = "uni" THEN "call" ELSE "reserve"

\* history of a unit: its chapter, its provider calls, its reservations, whether an
\* attempt ended otherwise than by a rate-limit error, the last text an attempt
\* returned (NoText when none did, WriteFailed when writing that text failed), and
\* the attempts whose text validate_translation rejected
WriteFailed == "writefailed"
NoHist == [unit |-> 0, calls |-> 0, reserved |-> 0, non429 |-> FALSE, returned |-> NoText,
           rejected |-> 0, prompt |-> EmptyGlossary]

\* process_chapter returns or raises: process_book goes on
EndUnit(c, status) ==
  /\ outcome' = [outcome EXCEPT ![c] = status]
  /\ upc' = "none"
  /\ attempt' = 0
  /\ resp' = NoResp
  /\ slept' = 0
  /\ pc' = BookAfter(status)
  /\ qi' = qi_after(status)

\* an attempt ends without a return: the sleep, then the next iteration of
\* `for attempt in range(max_retries)`, or (after the sleep) "Failed after retries"
EndAttempt(c, secs) ==
  IF attempt + 1 < max_retries
    THEN /\ slept' = secs
         /\ attempt' = attempt + 1
         /\ upc' = FirstStep
         /\ resp' = NoResp
         /\ UNCHANGED <<outcome, pc, qi>>
    ELSE EndUnit(c, "Failed")

PipeInit ==
  /\ variant \in Variants
  /\ args = NoArgs
  /\ file \in [Chapters -> {NoFile, "good", "nomarker"}]
  /\ glossary = EmptyGlossary
  /\ glossary_file = [state |-> "missing", data |-> EmptyGlossary]
  /\ pc = "idle"
  /\ queue = <<>>
  /\ qi = 1
  /\ upc = "none"
  /\ attempt = 0
  /\ resp = NoResp
  /\ slept = 0
  /\ session_requests = 0
  /\ session_tokens = 0
  /\ outcome = [c \in Chapters |-> "none"]
  /\ hist = NoHist
  /\ run = 1
  /\ prev = [c \in Chapters |-> "none"]
  /\ failed = NoReport
  /\ raw = RawChapters
  /\ book = 1
  /\ site_log = <<>>

\* process_book up to the for loop: load the glossary (json.load raises on a
\* glossary.json that is not JSON, outside any try), classify the chapters
StartRun(a, unreadable) ==
  /\ pc = "idle"
  /\ book > 1 => a = args              \* main passes the same args for every book
  /\ variant = "translate_epub" => ~a.audit
  /\ variant = "translate_epub" => unreadable = {}
  /\ args' = a
  /\ glossary' = load_glossary(glossary_file)
  /\ queue' = IF glossary_file.state = "corrupt" THEN <<>>
              ELSE BuildQueue(variant, a, file, unreadable)
  /\ qi' = 1
  /\ pc' = IF glossary_file.state = "corrupt" THEN "crashed"
           ELSE IF AuditReturns(variant, a) THEN "done"
           ELSE IF queue' = <<>> THEN "site" ELSE "dispatch"
  /\ failed' = IF variant = "tr_cerebras" /\ a.audit /\ glossary_file.state # "corrupt"
                 THEN [passed |-> Cardinality({c \in Chapters :
                                     Validated(a, file, unreadable, c)
                                     /\ ~CountedFailed(a, file, unreadable, c)}),
                       failed |-> Cardinality({c \in Chapters :
                                     CountedFailed(a, file, unreadable, c)})]
                 ELSE NoReport
  /\ UNCHANGED <<variant, file, glossary_file, upc, attempt, resp, slept,
                 session_requests, session_tokens, outcome, hist>>
  /\ UNCHANGED <<rlVars, mergeVars, fnVars, guiVars, raw, book, site_log, run, prev>>

current_chapter_glossary_None(c, g) == EmptyGlossary

\* current_chapter_glossary = filter_glossary(text, glossary), which the prompt
\* of every attempt of the unit carries: the entries of the dict process_book
\* passes, as it is when the unit starts, whose term is in the raw chapter
current_chapter_glossary(c, g) ==
  [k \in Terms |-> IF k \in Source(c).terms THEN g[k] ELSE "-"]

\* process_chapter starts: read the raw file (outside any try), uni.py checks the
\* session limits, the attempt loop begins
StartUnit(readOK) ==
  /\ pc = "dispatch"
  /\ upc = "none"
  /\ IF ~readOK
       THEN EndUnit(Cur, "Raised")
       ELSE IF variant = "uni" /\ ~check_session_limits(total_est(Cur))
         THEN EndUnit(Cur, "STOP")
         ELSE /\ upc' = FirstStep
              /\ attempt' = 0
              /\ UNCHANGED <<resp, slept, outcome, pc, qi>>
  /\ hist' = [NoHist EXCEPT !.unit = Cur,
                             !.prompt = IF readOK THEN current_chapter_glossary(Cur, glossary)
                                        ELSE EmptyGlossary]
  /\ UNCHANGED <<variant, args, file, glossary, glossary_file, queue,
                 session_requests, session_tokens>>
  /\ UNCHANGED <<rlVars, mergeVars, fnVars, guiVars, raw, book, site_log, run, prev, failed>>

\* rate_limiter.wait_if_needed(estimated_tokens) returns: the request is recorded
Reserve ==
  /\ pc = "dispatch"
  /\ upc = "reserve"
  /\ hist' = [hist EXCEPT !.reserved = @ + 1]
  /\ upc' = "call"
  /\ UNCHANGED <<variant, args, file, glossary, glossary_file, pc, queue, qi, attempt,
                 resp, slept, session_requests, session_tokens, outcome>>
  /\ UNCHANGED <<rlVars, mergeVars, fnVars, guiVars, raw, book, site_log, run, prev, failed>>

\* the provider call raises: a rate-limit error ('429') or any other error
CallRaises(kind) ==
  /\ pc = "dispatch"
  /\ upc = "call"
  /\ hist' = [hist EXCEPT !.calls = @ + 1,
                          !.non429 = @ \/ kind # "rate_limit"]
  /\ IF variant = "uni" /\ kind = "rate_limit"
       THEN EndUnit(Cur, "STOP")
       ELSE EndAttempt(Cur, ErrSleep(kind))
  /\ UNCHANGED <<variant, args, file, glossary, glossary_file, queue,
                 session_requests, session_tokens>>
  /\ UNCHANGED <<rlVars, mergeVars, fnVars, guiVars, raw, book, site_log, run, prev, failed>>

\* what json.loads and the two field reads make of the returned body
Parsed(r) ==
  IF r.kind = "bad_json" THEN NoResp
  ELSE IF r.kind = "no_text"
    THEN (IF variant = "translate_epub" THEN NoResp
          ELSE [kind |-> "text", text |-> "empty", new_terms |-> r.new_terms])
  ELSE r

Persisted_All(f, c, text, wr) == [k \in Chapters |-> text]

\* mutant: a text is written only when it passes validation
Persisted_OnlyValid(f, c, text, wr) ==
  IF wr = "ok" /\ validate_translation(variant, text, Source(c), TRUE)
    THEN [f EXCEPT ![c] = text]
    ELSE f

\* the file after `with open(translated_path, "w") as f: f.write(final_text)`:
\* written, or as it was when open() raised, or truncated when write() raised
Persisted(f, c, text, wr) ==
  IF wr = "ok" THEN [f EXCEPT ![c] = text]
  ELSE IF wr = "open_fails" THEN f
  ELSE [f EXCEPT ![c] = "empty"]

WriteOutcomes == {"ok", "open_fails", "write_fails"}

\* the provider call returns: uni.py counts it, the body is parsed, the text is
\* written to the chapter file (before it is validated)
CallReturns(r, usage, wr) ==
  /\ pc = "dispatch"
  /\ upc = "call"
  /\ variant # "uni" => usage = 0           \* only uni.py reads response.usage
  /\ Parsed(r) = NoResp => wr = "ok"        \* nothing is written
  /\ IF variant = "uni"
       THEN /\ session_requests' = session_requests + 1
            /\ session_tokens' = session_tokens + (IF usage # 0 THEN usage ELSE total_est(Cur))
       ELSE UNCHANGED <<session_requests, session_tokens>>
  /\ IF Parsed(r) = NoResp
       THEN /\ hist' = [hist EXCEPT !.calls = @ + 1, !.non429 = TRUE]
            /\ EndAttempt(Cur, ErrSleep("error"))
            /\ UNCHANGED file
       ELSE /\ file' = Persisted(file, Cur, Parsed(r).text, wr)
            /\ hist' = [hist EXCEPT !.calls = @ + 1, !.non429 = TRUE,
                                    !.returned = IF wr = "ok" THEN Parsed(r).text
                                                 ELSE WriteFailed]
            /\ IF wr = "ok"
                 THEN /\ resp' = Parsed(r)
                      /\ upc' = "validate"
                      /\ UNCHANGED <<attempt, slept, outcome, pc, qi>>
                 ELSE EndAttempt(Cur, ErrSleep("error"))
  /\ UNCHANGED <<variant, args, glossary, glossary_file, queue>>
  /\ UNCHANGED <<rlVars, mergeVars, fnVars, guiVars, raw, book, site_log, run, prev, failed>>

\* glossary.json after save_glossary: written, or as it was when open() raised, or
\* truncated when json.dump raised
save_glossary(gf, g, save) ==
  IF save = "ok" THEN [state |-> "ok", data |-> g]
  ELSE IF save = "open_fails" THEN gf
  ELSE [state |-> "corrupt", data |-> EmptyGlossary]

\* validate_translation(translated_path, source_text=text); on success the glossary
\* merge under glossary_lock and the return, otherwise the sleep and the next attempt
new_terms_list_Required(r) == IF r.new_terms.present THEN r.new_terms.list ELSE <<BadEntry>>

\* new_terms_list = result.get("new_terms", [])
new_terms_list(r) == IF r.new_terms.present THEN r.new_terms.list ELSE <<>>

Validate(save) ==
  /\ pc = "dispatch"
  /\ upc = "validate"
  /\ IF ~validate_translation(variant, file[Cur], Source(Cur), TRUE)
       THEN /\ EndAttempt(Cur, RejectSleep)
            /\ UNCHANGED <<glossary, glossary_file>>
       ELSE IF new_terms_list(resp) = <<>>
         THEN /\ EndUnit(Cur, "Accepted")
              /\ UNCHANGED <<glossary, glossary_file>>
       ELSE IF ~TermsWellFormed(new_terms_list(resp))
         THEN /\ EndAttempt(Cur, ErrSleep("error"))
              /\ UNCHANGED <<glossary, glossary_file>>
       ELSE /\ glossary' = MergeTerms(glossary, new_terms_list(resp))
            /\ glossary_file' = save_glossary(glossary_file, glossary', save)
            /\ IF save = "ok"
                 THEN EndUnit(Cur, "Accepted")
                 ELSE EndAttempt(Cur, ErrSleep("error"))
  /\ hist' = IF validate_translation(variant, file[Cur], Source(Cur), TRUE) THEN hist
             ELSE [hist EXCEPT !.rejected = @ + 1]
  /\ UNCHANGED <<variant, args, file, queue, session_requests, session_tokens>>
  /\ UNCHANGED <<rlVars, mergeVars, fnVars, guiVars, raw, book, site_log, run, prev, failed>>

\* generate_site.generate_site(...) inside try/except: process_book returns
SiteOutcomes == {"ok", "raises"}

AfterSite_Raises(res) == IF res = "raises" THEN "crashed" ELSE "done"

\* `try: generate_site.generate_site(...)` with `except Exception`: process_book
\* returns, whether the call returned or raised
AfterSite(res) == "done"

SiteRegen(res) ==
  /\ pc = "site"
  /\ site_log' = Append(site_log, res)
  /\ pc' = AfterSite(res)
  /\ UNCHANGED <<variant, args, file, glossary, glossary_file, queue, qi, upc, attempt,
                 resp, slept, session_requests, session_tokens, outcome, hist>>
  /\ UNCHANGED <<rlVars, mergeVars, fnVars, guiVars, raw, book, run, prev, failed>>

\* the script ends and is started again on the same book: a new process, with
\* the files the last one left; prev and hist remain as the record of the run
\* that ended
MaxRuns == 2
Rerun ==
  /\ pc \in {"done", "crashed"}
  /\ run < MaxRuns
  /\ run' = run + 1
  /\ pc' = "idle"
  /\ args' = NoArgs
  /\ glossary' = EmptyGlossary
  /\ queue' = <<>>
  /\ qi' = 1
  /\ session_requests' = 0
  /\ session_tokens' = 0
  /\ prev' = outcome
  /\ failed' = NoReport
  /\ outcome' = [c \in Chapters |-> "none"]
  /\ UNCHANGED <<variant, file, glossary_file, upc, attempt, resp, slept, hist>>
  /\ site_log' = <<>>
  /\ UNCHANGED <<rlVars, mergeVars, fnVars, guiVars, raw, book>>

\* no thread is in a glossary merge
MergeQuiet ==
  /\ mg_pc = [t \in Threads |-> "done"]
  /\ mg_lock = 0
  /\ mg_terms = [t \in Threads |-> <<>>]
  /\ mg_snap = [t \in Threads |-> EmptyGlossary]
  /\ mg_order = <<>>

\* the limiter at rest, for the runs of the pipeline
RLQuiet ==
  /\ rl_variant = "translate_epub"
  /\ request_timestamps = <<>>
  /\ token_timestamps = <<>>
  /\ lock = 0
  /\ rl_pc = [t \in Threads |-> "idle"]
  /\ rl_est = [t \in Threads |-> 0]
  /\ sleep_left = [t \in Threads |-> 0]
  /\ log = <<>>

\* the window as TranslationApp.__init__ leaves it; no run has been started
GuiInit ==
  /\ start_btn = "normal"
  /\ open_site_btn = "disabled"
  /\ run_pc = "none"
  /\ process = [state |-> "none", returncode |-> 0]
  /\ orphans = 0
  /\ after_queue = <<>>
  /\ launches = 0
  /\ zero_exits = 0

\* no validator or filter is being applied alone
FnQuiet ==
  /\ fn_in = <<>>
  /\ fn_out = <<>>

Init == PipeInit /\ RLQuiet /\ MergeQuiet /\ FnQuiet /\ GuiInit

Next ==
  \/ \E a \in ArgsSet, unreadable \in SUBSET Chapters : StartRun(a, unreadable)
  \/ \E readOK \in BOOLEAN : StartUnit(readOK)
  \/ Reserve
  \/ \E kind \in {"rate_limit", "error"} : CallRaises(kind)
  \/ \E r \in Responses, usage \in Usages, wr \in WriteOutcomes : CallReturns(r, usage, wr)
  \/ \E save \in WriteOutcomes : Validate(save)
  \/ \E res \in SiteOutcomes : SiteRegen(res)

Spec == Init /\ [][Next]_vars

\* a book that has no translated chapter yet
FreshInit == Init /\ file = [c \in Chapters |-> NoFile]

\* a run over a fresh book; the script keeps running: a step that can be taken is
\* taken
FairSpec == FreshInit /\ [][Next]_vars /\ WF_vars(Next)

\* process_book at rest
FrameQuiet ==
  /\ variant = "translate_epub"
  /\ args = NoArgs
  /\ file = [c \in Chapters |-> NoFile]
  /\ pc = "idle"
  /\ queue = <<>>
  /\ qi = 1
  /\ upc = "none"
  /\ attempt = 0
  /\ resp = NoResp
  /\ slept = 0
  /\ session_requests = 0
  /\ session_tokens = 0
  /\ outcome = [c \in Chapters |-> "none"]
  /\ hist = NoHist
  /\ run = 1
  /\ prev = [c \in Chapters |-> "none"]
  /\ failed = NoReport
  /\ raw = RawChapters
  /\ book = 1
  /\ site_log = <<>>

\* the pipeline at rest, for the runs of the limiter alone
PipeQuiet ==
  /\ FrameQuiet
  /\ glossary = EmptyGlossary
  /\ glossary_file = [state |-> "missing", data |-> EmptyGlossary]

\* the classification of process_book alone: every book state, every command line
InitClassify ==
  /\ variant \in Variants
  /\ file \in [Chapters -> {NoFile} \cup Texts]
  /\ args = NoArgs
  /\ glossary = EmptyGlossary
  /\ glossary_file = [state |-> "missing", data |-> EmptyGlossary]
  /\ pc = "idle"
  /\ queue = <<>>
  /\ qi = 1
  /\ upc = "none"
  /\ attempt = 0
  /\ resp = NoResp
  /\ slept = 0
  /\ session_requests = 0
  /\ session_tokens = 0
  /\ outcome = [c \in Chapters |-> "none"]
  /\ hist = NoHist
  /\ run = 1
  /\ prev = [c \in Chapters |-> "none"]
  /\ failed = NoReport
  /\ raw = RawChapters
  /\ book = 1
  /\ site_log = <<>>
  /\ RLQuiet
  /\ MergeQuiet
  /\ FnQuiet /\ GuiInit

NextClassify == \E a \in AllArgs, unreadable \in SUBSET Chapters : StartRun(a, unreadable)

SpecClassify == InitClassify /\ [][NextClassify]_vars

----------------------------------------------------------------------------
(* The glossary merge of process_chapter, run by two threads of one book that
   share the glossary dict and glossary.json.  Each thread holds a response
   that has passed validation. *)

\* the new_terms lists of the two responses
MergeLists == {o.list : o \in {n \in NewTermsOptions : n.present}}

\* the glossary of the book before the two units: empty, or holding an old entry
OldGlossary == [k \in Terms |-> IF k = "k1" THEN "old" ELSE "-"]

\* what the pipeline variables are while the merge is looked at alone
mergeFrame == <<variant, args, file, pc, queue, qi, upc, attempt, resp, slept,
                session_requests, session_tokens, outcome, hist, run, prev, failed,
                raw, book, site_log>>

\* mutant: glossary_lock does not exclude
LockFree_Always == TRUE

\* glossary_lock can be acquired
LockFree == mg_lock = 0

MergeInit ==
  /\ mg_pc = [t \in Threads |-> "start"]
  /\ mg_lock = 0
  /\ mg_terms \in [Threads -> MergeLists]
  /\ mg_snap = [t \in Threads |-> EmptyGlossary]
  /\ mg_order = <<>>

\* `if new_terms_list:` is false: the unit returns without touching the glossary
MgSkip(t) ==
  /\ mg_pc[t] = "start"
  /\ mg_terms[t] = <<>>
  /\ mg_pc' = [mg_pc EXCEPT ![t] = "accepted"]
  /\ UNCHANGED <<mg_lock, mg_terms, mg_snap, mg_order, glossary, glossary_file>>
  /\ UNCHANGED <<rlVars, mergeFrame, fnVars, guiVars>>

\* `with glossary_lock:`
MgAcquire(t) ==
  /\ mg_pc[t] = "start"
  /\ mg_terms[t] # <<>>
  /\ LockFree
  /\ mg_lock' = t
  /\ mg_pc' = [mg_pc EXCEPT ![t] = "locked"]
  /\ UNCHANGED <<mg_terms, mg_snap, mg_order, glossary, glossary_file>>
  /\ UNCHANGED <<rlVars, mergeFrame, fnVars, guiVars>>

\* unique_terms = {...} and the loop `glossary[original] = english`; a KeyError
\* of the comprehension leaves the with block
MgMerge(t) ==
  /\ mg_pc[t] = "locked"
  /\ IF TermsWellFormed(mg_terms[t])
       THEN /\ glossary' = MergeTerms(glossary, mg_terms[t])
            /\ mg_order' = Append(mg_order, t)
            /\ mg_pc' = [mg_pc EXCEPT ![t] = "merged"]
            /\ UNCHANGED mg_lock
       ELSE /\ mg_pc' = [mg_pc EXCEPT ![t] = "failed"]
            /\ mg_lock' = IF mg_lock = t THEN 0 ELSE mg_lock
            /\ UNCHANGED <<glossary, mg_order>>
  /\ UNCHANGED <<mg_terms, mg_snap, glossary_file>>
  /\ UNCHANGED <<rlVars, mergeFrame, fnVars, guiVars>>

\* save_glossary: json.dump serialises the dict as it is now
MgDump(t) ==
  /\ mg_pc[t] = "merged"
  /\ mg_snap' = [mg_snap EXCEPT ![t] = glossary]
  /\ mg_pc' = [mg_pc EXCEPT ![t] = "dumped"]
  /\ UNCHANGED <<mg_lock, mg_terms, mg_order, glossary, glossary_file>>
  /\ UNCHANGED <<rlVars, mergeFrame, fnVars, guiVars>>

\* save_glossary: the serialised text reaches glossary.json (or the write raises);
\* the with block ends and the unit returns, or its attempt ends in the except
MgWrite(t, save) ==
  /\ mg_pc[t] = "dumped"
  /\ glossary_file' = save_glossary(glossary_file, mg_snap[t], save)
  /\ mg_pc' = [mg_pc EXCEPT ![t] = IF save = "ok" THEN "accepted" ELSE "failed"]
  /\ mg_lock' = IF mg_lock = t THEN 0 ELSE mg_lock
  /\ UNCHANGED <<mg_terms, mg_snap, mg_order, glossary>>
  /\ UNCHANGED <<rlVars, mergeFrame, fnVars, guiVars>>

NextMerge ==
  \/ \E t \in Threads : MgSkip(t)
  \/ \E t \in Threads : MgAcquire(t)
  \/ \E t \in Threads : MgMerge(t)
  \/ \E t \in Threads : MgDump(t)
  \/ \E t \in Threads, save \in WriteOutcomes : MgWrite(t, save)

\* two units at their merge, on a book whose glossary.json holds what the dict holds
InitMerge ==
  /\ FrameQuiet /\ RLQuiet /\ MergeInit /\ FnQuiet /\ GuiInit
  /\ glossary \in {EmptyGlossary, OldGlossary}
  /\ glossary_file = IF glossary = EmptyGlossary
                       THEN [state |-> "missing", data |-> EmptyGlossary]
                       ELSE [state |-> "ok", data |-> glossary]

SpecMerge == InitMerge /\ [][NextMerge]_vars

\* the environment of consecutive runs: the provider returns texts without new
\* terms or raises, and the file system works
RunResponses == {r \in Responses : r.new_terms = [present |-> FALSE, list |-> <<>>]}

NextRuns ==
  \/ \E a \in ArgsSet, unreadable \in SUBSET Chapters : StartRun(a, unreadable)
  \/ \E readOK \in BOOLEAN : StartUnit(readOK)
  \/ Reserve
  \/ \E kind \in {"rate_limit", "error"} : CallRaises(kind)
  \/ \E r \in RunResponses : CallReturns(r, 0, "ok")
  \/ Validate("ok")
  \/ \E res \in SiteOutcomes : SiteRegen(res)
  \/ Rerun

\* the script run twice on a book
SpecRuns == Init /\ [][NextRuns]_vars

\* main with --library_dir: `for book_dir in subdirs: process_book(book_dir, args)`.
\* process_book has returned for one book and is called on the next, a book
\* without translated chapter and without glossary.json; the session counters of
\* uni.py are globals of the process and stay
NBooks == 2
NextBook ==
  /\ pc = "done"
  /\ book < NBooks
  /\ book' = book + 1
  /\ pc' = "idle"
  /\ file' = [c \in Chapters |-> NoFile]
  /\ glossary_file' = [state |-> "missing", data |-> EmptyGlossary]
  /\ glossary' = EmptyGlossary
  /\ queue' = <<>>
  /\ qi' = 1
  /\ prev' = outcome
  /\ failed' = NoReport
  /\ outcome' = [c \in Chapters |-> "none"]
  /\ UNCHANGED <<variant, args, upc, attempt, resp, slept, session_requests,
                 session_tokens, hist, run, site_log>>
  /\ UNCHANGED <<rlVars, mergeVars, fnVars, guiVars, raw>>

NextLibrary ==
  \/ \E a \in ArgsSet, unreadable \in SUBSET Chapters : StartRun(a, unreadable)
  \/ \E readOK \in BOOLEAN : StartUnit(readOK)
  \/ Reserve
  \/ \E kind \in {"rate_limit", "error"} : CallRaises(kind)
  \/ \E r \in RunResponses : CallReturns(r, 0, "ok")
  \/ Validate("ok")
  \/ \E res \in SiteOutcomes : SiteRegen(res)
  \/ NextBook

\* the script run on a library of NBooks books
SpecLibrary == Init /\ [][NextLibrary]_vars

\* the same run with a provider that never returns new_terms, on a first book
\* that may have a glossary.json with an entry
InitNoTerms ==
  /\ RLQuiet /\ MergeQuiet /\ FnQuiet /\ GuiInit
  /\ variant \in Variants
  /\ args = NoArgs
  /\ file \in [Chapters -> {NoFile, "good", "nomarker"}]
  /\ glossary = EmptyGlossary
  /\ glossary_file \in {[state |-> "missing", data |-> EmptyGlossary],
                        [state |-> "ok", data |-> OldGlossary]}
  /\ pc = "idle"
  /\ queue = <<>>
  /\ qi = 1
  /\ upc = "none"
  /\ attempt = 0
  /\ resp = NoResp
  /\ slept = 0
  /\ session_requests = 0
  /\ session_tokens = 0
  /\ outcome = [c \in Chapters |-> "none"]
  /\ hist = NoHist
  /\ run = 1
  /\ prev = [c \in Chapters |-> "none"]
  /\ failed = NoReport
  /\ raw = RawChapters
  /\ book = 1
  /\ site_log = <<>>

SpecNoTerms == InitNoTerms /\ [][NextLibrary]_vars


----------------------------------------------------------------------------
(* Claims about process_chapter and process_book *)

\* the attempt bounds the claim names for the three variants
CallBound == IF variant = "translate_epub" THEN 2 ELSE 3
TerminalOutcomes ==
  IF variant = "uni" THEN {"Accepted", "Failed", "STOP"} ELSE {"Accepted", "Failed"}

\* C4: whatever the provider does, a unit that has entered its attempt loop issues
\* at most max_retries provider calls (2 in translate_epub.py, 3 in the other two),
\* one call per attempt and one attempt after the other, and it ends in exactly one
\* of Accepted, Failed (or STOP in uni.py), which it keeps.
C4_BoundedAttempts ==
  /\ [](hist.calls <= CallBound)
  /\ [](upc # "none" =>
          /\ hist.unit = Cur
          /\ outcome[Cur] = "none"
          /\ attempt < CallBound
          /\ hist.calls = IF upc = "validate" THEN attempt + 1 ELSE attempt)
  /\ [][\A c \in Chapters : outcome[c] # "none" => outcome'[c] = outcome[c]]_vars
  /\ \A c \in Chapters :
       (upc # "none" /\ Cur = c) ~> (upc = "none" /\ outcome[c] \in TerminalOutcomes)

\* a unit of tr_cerebras.py has ended Failed after three provider calls
C4_Witness ==
  /\ variant = "tr_cerebras"
  /\ upc = "none"
  /\ hist.unit # 0
  /\ outcome[hist.unit] = "Failed"
  /\ hist.calls = 3

\* C5: rate-limit errors do not consume attempts, so a unit is never turned into
\* Failed by rate-limit errors alone: a Failed unit had an attempt that ended
\* otherwise.
C5_RateLimitNeverFails ==
  \A c \in Chapters : (outcome[c] = "Failed" /\ hist.unit = c) => hist.non429

\* C6: no error of a unit's processing leaves process_chapter as an exception.
C6_NoExceptionEscapes ==
  /\ \A c \in Chapters : outcome[c] # "Raised"
  /\ pc # "crashed"

\* C7: when the for loop of process_book has ended and no unit returned STOP, every
\* queued unit has been dispatched, whatever happened to the units before it.
C7_FailureIsolation ==
  (pc \in {"site", "done", "crashed"} /\ ~AuditReturns(variant, args))
    => \/ \A i \in 1..Len(queue) : outcome[queue[i]] # "none"
       \/ \E c \in Chapters : outcome[c] = "STOP"

\* C8: in uni.py, once a unit has returned STOP no provider call is issued, neither
\* by that unit nor by another, and no other unit of the book is dispatched.
C8_StopEndsBook ==
  [][(variant = "uni" /\ \E c \in Chapters : outcome[c] = "STOP")
       => /\ hist' = hist
          /\ outcome' = outcome
          /\ upc' = "none"
          /\ session_requests' = session_requests]_vars

\* the first of two queued units hit a '429' and returned STOP; the book is done
\* and the second unit was never dispatched
C8_Witness ==
  /\ variant = "uni"
  /\ pc = "done"
  /\ Len(queue) = 2
  /\ outcome[queue[1]] = "STOP"
  /\ outcome[queue[2]] = "none"
  /\ hist.unit = queue[1]
  /\ hist.calls > 0

\* C9: the session counters of uni.py never exceed the daily limits.
C9_SessionHardCap ==
  /\ session_requests <= DAILY_REQUEST_LIMIT
  /\ session_tokens <= DAILY_TOKEN_LIMIT

RawReadable == queue' = BuildQueue(variant, args', file, {})

\* the script starts its second run: the step that classifies the chapters
SecondStart == run = 2 /\ pc = "idle" /\ pc' \notin {"idle", "crashed"}

\* C11: a unit that ended Failed with the text of every attempt rejected by
\* validate_translation(path, source_text) is queued again by the next run of
\* process_book when that run has no flag (no force in particular).
C11_FailedRequeued ==
  [][(/\ SecondStart
      /\ hist.unit # 0
      /\ prev[hist.unit] = "Failed"
      /\ hist.rejected = max_retries
      /\ args' = NoArgs
      /\ RawReadable)
     => \E i \in 1..Len(queue') : queue'[i] = hist.unit]_vars

\* C12: when every chapter of the book was Accepted in a run, the next run without
\* --force (raw chapters readable as before) queues nothing, and a run with an
\* empty queue calls no provider and writes no chapter file.
C12_Idempotent ==
  /\ [][(/\ SecondStart
          /\ \A c \in Chapters : prev[c] = "Accepted"
          /\ ~args'.force
          /\ RawReadable)
         => queue' = <<>> /\ pc' \in {"site", "done"}]_vars
  /\ [][(pc # "idle" /\ queue = <<>>)
         => hist' = hist /\ file' = file /\ upc' = "none"
            /\ session_requests' = session_requests]_vars

C12_Witness ==
  /\ run = 2
  /\ pc = "done"
  /\ \A c \in Chapters : prev[c] = "Accepted"
  /\ ~args.force
  /\ queue = <<>>
  /\ hist.unit # 0

\* the step by which process_chapter returns after a valid response
Accepts == upc = "validate" /\ outcome[Cur] = "none" /\ outcome'[Cur] = "Accepted"

Occurs(list, k) == \E i \in 1..Len(list) : list[i].original_term = k

\* the english_translation of the last entry of list for key k
LastOcc(list, k) ==
  list[CHOOSE i \in 1..Len(list) :
         /\ list[i].original_term = k
         /\ \A j \in (i + 1)..Len(list) : list[j].original_term # k].english_translation

\* C14: when a response is accepted, every original_term of its new_terms maps
\* afterwards to the english_translation of its last occurrence in the response,
\* and every other entry of the glossary is as it was.
C14_MergeLastWins ==
  [][Accepts =>
       \A k \in Terms :
         glossary'[k] = IF Occurs(resp.new_terms.list, k)
                          THEN LastOcc(resp.new_terms.list, k)
                          ELSE glossary[k]]_vars

\* two accepted units: the second overwrote k1 = "a" by the last of its two
\* entries for k1
C14_Witness ==
  /\ \A c \in Chapters : outcome[c] = "Accepted"
  /\ glossary["k1"] = "b"
  /\ glossary["k2"] = "-"
  /\ glossary_file.data["k1"] = "b"

\* C15: while process_book runs and no merge is in progress, glossary.json holds
\* exactly the in-memory glossary (a missing file standing for the empty dict).
C15_GlossaryPersisted ==
  pc \in {"dispatch", "site", "done"} =>
    /\ glossary_file.state # "corrupt"
    /\ glossary = load_glossary(glossary_file)

\* process_book has classified the chapters of the book
Classified == pc \notin {"idle", "crashed"}

InQueue(q, c) == \E i \in 1..Len(q) : q[i] = c

\* the queue process_book would have built without --limit, for some readability
\* of the raw chapters
Unlimited == {BuildQueue(variant, [args EXCEPT !.limit = <<>>], file, u) : u \in SUBSET Chapters}

\* C16: with --fix-only no chapter without a translated file is queued, in any of
\* the three variants.
C16_FixOnlySkipsMissing ==
  (Classified /\ args.fix_only) => \A c \in Chapters : InQueue(queue, c) => file[c] # NoFile

\* C17: with --force every selected chapter is queued, whatever its translated
\* file and whatever --fix-only and --audit (no --limit cutting the queue, raw
\* chapters readable).
C17_ForceQueuesAll ==
  [][(/\ pc = "idle" /\ pc' \notin {"idle", "crashed"}
      /\ args'.force
      /\ ~Truncates(variant, args')
      /\ RawReadable)
     => \A c \in Chapters : Selected(args', c) => InQueue(queue', c)]_vars

\* C18: with an allow-list the queue holds only chapters of the list, and it is
\* the queue that the same command line without --limit builds.
C18_AllowList ==
  (Classified /\ args.chapters # {}) =>
    /\ \A c \in Chapters : InQueue(queue, c) => c \in args.chapters
    /\ queue \in Unlimited

C18_Witness ==
  /\ Classified
  /\ args.chapters = {1, 2}
  /\ args.limit = <<1>>
  /\ ~args.audit
  /\ queue = <<1, 2>>

\* C19: with --limit L and no allow-list the queue holds at most L chapters, the
\* first ones in file order of those the classification selected.
C19_LimitTruncates ==
  (Classified /\ args.limit # <<>> /\ args.chapters = {} /\ ~AuditReturns(variant, args)) =>
    /\ Len(queue) <= args.limit[1]
    /\ \E q \in Unlimited : queue = SubSeq(q, 1, Len(queue))

\* the existing translations of the selected chapters, and the invalid ones
Existing == {c \in Chapters : Selected(args', c) /\ file[c] # NoFile}
ExistingInvalid ==
  {c \in Existing : ~validate_translation(variant, file[c], Source(c), TRUE)}

Contributes(t, k) == Occurs(mg_terms[t], k)

\* the last thread, in merge order, that contributed key k
LastMerger(k) ==
  mg_order[CHOOSE i \in 1..Len(mg_order) :
             /\ Contributes(mg_order[i], k)
             /\ \A j \in (i + 1)..Len(mg_order) : ~Contributes(mg_order[j], k)]

BothAccepted == \A t \in Threads : mg_pc[t] = "accepted"

\* C13: when two units that merge concurrently are both accepted, every key that
\* one of them contributed is in the glossary dict and in glossary.json, with the
\* value of the later merge when both contributed it, and glossary.json holds
\* what the dict holds.
C13_NoLostUpdate ==
  BothAccepted =>
    /\ \A k \in Terms : (\E t \in Threads : Contributes(t, k)) =>
         /\ glossary[k] = LastOcc(mg_terms[LastMerger(k)], k)
         /\ glossary_file.data[k] = glossary[k]
    /\ mg_order # <<>> => glossary_file = [state |-> "ok", data |-> glossary]

\* both accepted, thread 2 merged first, each contributed a key of its own
C13_Witness ==
  /\ BothAccepted
  /\ mg_order = <<2, 1>>
  /\ Contributes(1, "k1") /\ Contributes(2, "k2")
  /\ glossary_file.data["k1"] # "-" /\ glossary_file.data["k2"] # "-"

\* both accepted, both contributed k1 with different values
C13_WitnessSameKey ==
  /\ BothAccepted
  /\ mg_order = <<2, 1>>
  /\ Contributes(1, "k1") /\ Contributes(2, "k1")
  /\ LastOcc(mg_terms[1], "k1") # LastOcc(mg_terms[2], "k1")

\* the run is not one that only audits (tr_cerebras.py, uni.py --audit)
NotAudit == ~(variant \in {"tr_cerebras", "uni"} /\ args.audit)

\* C29: when the queue of a book has drained or a STOP has ended it,
\* process_book calls generate_site once for that book (one call per book
\* finished, none before); the call ends process_book normally whether it
\* returned or raised, and the next book of the library is then started
C29_SiteOncePerBook ==
  /\ [](NotAudit => Len(site_log) = IF pc = "done" THEN book ELSE book - 1)
  /\ [][pc = "site" => (pc' = "done" /\ Len(site_log') = Len(site_log) + 1)]_vars
  /\ [][(pc = "done" /\ book < NBooks) => (pc' = "idle" /\ book' = book + 1)]_vars

\* the site of the first book failed and a chapter of the second was accepted
C29_Witness ==
  /\ book = 2
  /\ site_log = <<"raises", "raises">>
  /\ pc = "done"
  /\ \E c \in Chapters : outcome[c] = "Accepted"

\* a STOP of uni.py ended the queue with a unit left, and the site was generated
C29_WitnessStop ==
  /\ variant = "uni"
  /\ pc = "done"
  /\ \E c \in Chapters : outcome[c] = "STOP"
  /\ Len(site_log) = book

\* C30: when the response of an attempt has no new_terms field and its text
\* passes validation, the unit ends Accepted in that step and neither the
\* glossary dict nor glossary.json changes
C30_AbsentTermsAccepted ==
  [][(upc = "validate" /\ ~resp.new_terms.present
        /\ validate_translation(variant, file[Cur], Source(Cur), TRUE))
      => (outcome'[Cur] = "Accepted" /\ glossary' = glossary
          /\ glossary_file' = glossary_file)]_vars

\* a unit accepted on a book whose glossary holds an entry
C30_Witness ==
  /\ book = 1
  /\ hist.unit # 0
  /\ outcome[hist.unit] = "Accepted"
  /\ glossary = OldGlossary
  /\ glossary_file = [state |-> "ok", data |-> OldGlossary]

\* C31: in translate_epub.py and tr_cerebras.py every provider call, of a first
\* attempt and of a retry, comes after a reservation of its own: when a call is
\* issued the unit has made one reservation more than calls, and otherwise as
\* many reservations as calls
C31_ReserveBeforeSend ==
  /\ [](variant # "uni" =>
          hist.reserved = IF upc = "call" THEN hist.calls + 1 ELSE hist.calls)
  /\ [][(variant # "uni" /\ hist'.calls = hist.calls + 1)
          => (upc = "call" /\ hist.reserved = hist.calls + 1
              /\ hist'.reserved = hist.reserved)]_vars

\* the second call of a unit, after a first attempt that failed: two reservations
C31_Witness ==
  /\ variant # "uni"
  /\ hist.calls = 2
  /\ hist.reserved = 2

\* the step is one in which save_glossary raised
SaveRaised ==
  /\ new_terms_list(resp) # <<>>
  /\ TermsWellFormed(new_terms_list(resp))
  /\ glossary_file' # save_glossary(glossary_file, MergeTerms(glossary, new_terms_list(resp)), "ok")

\* C32: when validate_translation accepts the text of a response, the unit ends
\* Accepted in that step, whatever the new_terms of the response are (the
\* steps in which writing glossary.json fails set aside)
C32_AcceptanceTerminal ==
  [][(upc = "validate" /\ validate_translation(variant, file[Cur], Source(Cur), TRUE)
        /\ ~SaveRaised)
      => outcome'[Cur] = "Accepted"]_vars

\* a unit of this book or of the book before it has returned STOP
Stopped == \E c \in Chapters : outcome[c] = "STOP" \/ prev[c] = "STOP"

\* C33: in a library run of uni.py, once a unit has returned STOP no provider
\* call is issued any more, in this book or in a later one
C33_StopEndsRun ==
  [][(variant = "uni" /\ Stopped) => hist'.calls # hist.calls + 1]_vars

\* C34: a term that is in the glossary when a unit starts, as every term merged
\* by a unit accepted earlier in the run still is, is in the glossary of that
\* unit's prompt, with its translation, when the raw chapter contains it
C34_GlossaryVisible ==
  /\ [][upc = "validate" =>
          \A k \in Terms :
            (outcome'[Cur] = "Accepted" /\ Occurs(new_terms_list(resp), k))
              => glossary'[k] # "-"]_vars
  /\ [][\A k \in Terms :
          (pc # "idle" /\ glossary[k] # "-") => glossary'[k] # "-"]_vars
  /\ [][(upc = "none" /\ upc' # "none") =>
          \A k \in Source(Cur).terms :
            glossary[k] # "-" => hist'.prompt[k] = glossary[k]]_vars

\* the second unit runs with the term the first, accepted, unit merged
C34_Witness ==
  /\ hist.unit = 2
  /\ upc = "call"
  /\ outcome[1] = "Accepted"
  /\ hist.prompt["k1"] = "b"

\* C35: while a unit is in flight the glossary dict and glossary.json change
\* only in the step in which the unit ends Accepted, and no step takes a key
\* out of the dict
C35_OnlyAcceptedMerge ==
  [][upc # "none" =>
       /\ (glossary' # glossary \/ glossary_file' # glossary_file)
            => outcome'[Cur] = "Accepted"
       /\ \A k \in Terms : glossary[k] # "-" => glossary'[k] # "-"]_vars

\* C36: no step of a run changes a raw chapter file or removes a translated
\* chapter file; a translated chapter file changes only in the step in which
\* the unit of that chapter writes the text it received, so the file of a
\* chapter that is not dispatched stays as it was; and glossary.json changes
\* only in the merge step of a unit
C36_RunFrame ==
  /\ [][raw' = raw]_vars
  /\ [][\A c \in Chapters : file[c] # NoFile => file'[c] # NoFile]_vars
  /\ [][\A c \in Chapters :
          file'[c] # file[c] => (pc = "dispatch" /\ upc = "call" /\ c = Cur)]_vars
  /\ [][glossary_file' # glossary_file => (pc = "dispatch" /\ upc = "validate")]_vars

\* a run with --limit 1: the first chapter was translated, the second, whose
\* file is invalid, was cut off by the limit and still holds the same text
C36_Witness ==
  /\ pc = "done"
  /\ args.limit = <<1>>
  /\ outcome = <<"Accepted", "none">>
  /\ file[1] = "good"
  /\ file[2] = "nomarker"

\* C37: the queue of a book is in ascending chapter order and its units are
\* dispatched in that order, one at a time: while a unit is in flight every
\* unit before it in the queue has reached a terminal outcome and no unit after
\* it has started; a unit is started only when none is in flight; and the next
\* book of a library is started only when process_book has returned for the
\* book before it
C37_SequentialDispatch ==
  /\ [](\A i, j \in DOMAIN queue : i < j => queue[i] < queue[j])
  /\ [](upc # "none" =>
          /\ pc = "dispatch" /\ qi \in DOMAIN queue
          /\ outcome[queue[qi]] = "none"
          /\ \A i \in DOMAIN queue :
               /\ i < qi => outcome[queue[i]] # "none"
               /\ i > qi => outcome[queue[i]] = "none")
  /\ [][hist'.unit # hist.unit => (upc = "none" /\ hist'.unit = queue[qi])]_vars
  /\ [][book' # book => (pc = "done" /\ upc = "none" /\ book' = book + 1)]_vars

\* the second unit of the second book is in flight, the first has ended
C37_Witness ==
  /\ book = 2
  /\ upc = "call"
  /\ qi = 2
  /\ queue = <<1, 2>>
  /\ outcome[1] # "none"

\* C38: in uni.py every provider call, whether it returns or raises, adds one
\* to session_requests, and neither session counter ever decreases
C38_SessionAccounting ==
  /\ [][(variant = "uni" /\ hist'.calls = hist.calls + 1)
          => session_requests' = session_requests + 1]_vars
  /\ [][session_requests' >= session_requests /\ session_tokens' >= session_tokens]_vars

----------------------------------------------------------------------------
(* RateLimiter *)

\* mutant: an entry exactly 60 seconds old is kept
Young_Inclusive(age) == age <= WINDOW

\* the test `now - t < 60` of _cleanup, on the age now - t
Young(age) == age < WINDOW

\* RateLimiter._cleanup: the two lists with the entries of 60 s and older removed
CleanRequests(reqs) == SelectSeq(reqs, Young)
YoungTok(e) == Young(e[1])
CleanTokens(toks) == SelectSeq(toks, YoungTok)

\* mutant: the request test is off by one
Admit_OffByOne(reqs, toks, est) ==
  Len(reqs) <= rpm_limit /\ SumSeq(Costs_of(toks)) + est <= tpm_limit

\* the admission test of wait_if_needed on the cleaned lists
Admit(reqs, toks, est) ==
  Len(reqs) < rpm_limit /\ SumSeq(Costs_of(toks)) + est <= tpm_limit

\* time.sleep(1) in translate_epub.py, time.sleep(2) in tr_cerebras.py
SleepSecs == IF rl_variant = "translate_epub" THEN 1 ELSE 2

\* the token entry appended when a call is recorded
TokenEntry(toks, est) ==
  IF rl_variant = "translate_epub" /\ est <= 0 THEN toks ELSE Append(toks, <<0, est>>)

RLInit ==
  /\ rl_variant \in RLVariants
  /\ request_timestamps = <<>>
  /\ token_timestamps = <<>>
  /\ lock = 0
  /\ rl_pc = [t \in Threads |-> "idle"]
  /\ rl_est = [t \in Threads |-> 0]
  /\ sleep_left = [t \in Threads |-> 0]
  /\ log = <<>>

\* a thread calls rate_limiter.wait_if_needed(estimated_tokens)
Call(t, est) ==
  /\ rl_pc[t] = "idle"
  /\ Len(log) + Cardinality({u \in Threads : rl_pc[u] # "idle"}) < MaxCalls
  /\ rl_pc' = [rl_pc EXCEPT ![t] = "lock"]
  /\ rl_est' = [rl_est EXCEPT ![t] = est]
  /\ UNCHANGED <<rl_variant, request_timestamps, token_timestamps, lock, sleep_left, log>>
  /\ UNCHANGED <<pipeVars, mergeVars, fnVars, guiVars>>

\* with self.lock:
Acquire(t) ==
  /\ rl_pc[t] = "lock"
  /\ lock = 0
  /\ lock' = t
  /\ rl_pc' = [rl_pc EXCEPT ![t] = "loop"]
  /\ UNCHANGED <<rl_variant, request_timestamps, token_timestamps, rl_est, sleep_left, log>>
  /\ UNCHANGED <<pipeVars, mergeVars, fnVars, guiVars>>

\* one iteration of the while loop: _cleanup, the test, break or sleep
Check(t) ==
  /\ rl_pc[t] = "loop"
  /\ request_timestamps' = CleanRequests(request_timestamps)
  /\ token_timestamps' = CleanTokens(token_timestamps)
  /\ IF Admit(request_timestamps', token_timestamps', rl_est[t])
       THEN /\ rl_pc' = [rl_pc EXCEPT ![t] = "record"]
            /\ UNCHANGED sleep_left
       ELSE /\ rl_pc' = [rl_pc EXCEPT ![t] = "sleep"]
            /\ sleep_left' = [sleep_left EXCEPT ![t] = SleepSecs]
  /\ UNCHANGED <<rl_variant, lock, rl_est, log>>
  /\ UNCHANGED <<pipeVars, mergeVars, fnVars, guiVars>>

\* time.sleep returns, the loop starts over (the lock is still held)
Wake(t) ==
  /\ rl_pc[t] = "sleep"
  /\ sleep_left[t] = 0
  /\ rl_pc' = [rl_pc EXCEPT ![t] = "loop"]
  /\ UNCHANGED <<rl_variant, request_timestamps, token_timestamps, lock, rl_est,
                 sleep_left, log>>
  /\ UNCHANGED <<pipeVars, mergeVars, fnVars, guiVars>>

\* "Record this request": now = time.time(), the appends, the lock is released
Record(t) ==
  /\ rl_pc[t] = "record"
  /\ request_timestamps' = Append(request_timestamps, 0)
  /\ token_timestamps' = TokenEntry(token_timestamps, rl_est[t])
  /\ log' = Append(log, <<0, rl_est[t]>>)
  /\ lock' = 0
  /\ rl_pc' = [rl_pc EXCEPT ![t] = "idle"]
  /\ rl_est' = [rl_est EXCEPT ![t] = 0]
  /\ UNCHANGED <<rl_variant, sleep_left>>
  /\ UNCHANGED <<pipeVars, mergeVars, fnVars, guiVars>>

\* time.time() advances by TickStep seconds
Older(age) == Min(age + TickStep, WINDOW)
Tick ==
  /\ request_timestamps' = [i \in 1..Len(request_timestamps) |-> Older(request_timestamps[i])]
  /\ token_timestamps' = [i \in 1..Len(token_timestamps) |->
                            <<Older(token_timestamps[i][1]), token_timestamps[i][2]>>]
  /\ log' = [i \in 1..Len(log) |-> <<Older(log[i][1]), log[i][2]>>]
  /\ sleep_left' = [t \in Threads |-> Max(sleep_left[t] - TickStep, 0)]
  /\ UNCHANGED <<rl_variant, lock, rl_pc, rl_est>>
  /\ UNCHANGED <<pipeVars, mergeVars, fnVars, guiVars>>

RLNext ==
  \/ \E t \in Threads, est \in Costs : Call(t, est)
  \/ \E t \in Threads : Acquire(t)
  \/ \E t \in Threads : Check(t)
  \/ \E t \in Threads : Wake(t)
  \/ \E t \in Threads : Record(t)
  \/ Tick

\* the limiter as constructed, the pipeline not running
InitRL == RLInit /\ PipeQuiet /\ MergeQuiet /\ FnQuiet /\ GuiInit

SpecRL == InitRL /\ [][RLNext]_vars

\* the scheduling of the threads and of the clock: a thread that can take a step
\* takes one, and time passes
FairRL ==
  /\ SpecRL
  /\ \A t \in Threads : WF_vars(Acquire(t) \/ Check(t) \/ Wake(t) \/ Record(t))
  /\ WF_vars(Tick)

----------------------------------------------------------------------------
(* Claims about the RateLimiter *)

\* the recorded requests younger than 60 seconds
RecordedYoung == {i \in 1..Len(request_timestamps) : request_timestamps[i] < WINDOW}
\* the token cost of the recorded entries younger than 60 seconds
RecordedYoungTokens ==
  SumSeq([i \in 1..Len(token_timestamps) |->
            IF token_timestamps[i][1] < WINDOW THEN token_timestamps[i][2] ELSE 0])

\* C1: in every state, in particular right after a call has recorded its entry, at
\* most rpm_limit recorded requests are younger than 60 seconds and the token costs
\* of the recorded entries younger than 60 seconds sum to at most tpm_limit.
C1_WindowWithinLimits ==
  /\ Cardinality(RecordedYoung) <= rpm_limit
  /\ RecordedYoungTokens <= tpm_limit

\* a call has just been recorded, it fills both budgets, and the other thread is
\* waiting for the limiter
C1_Witness ==
  /\ Len(log) > 0
  /\ log[Len(log)][1] = 0
  /\ Cardinality(RecordedYoung) = rpm_limit
  /\ RecordedYoungTokens = tpm_limit
  /\ \E t \in Threads : rl_pc[t] = "lock"

\* C2: a call whose estimated cost alone exceeds tpm_limit is eventually admitted
\* and returns.
C2_OversizedAdmitted ==
  \A t \in Threads : (rl_pc[t] = "lock" /\ rl_est[t] > tpm_limit) ~> (rl_pc[t] = "idle")

\* the committed calls younger than 60 seconds, and their token cost
CommittedYoung == {i \in 1..Len(log) : log[i][1] < WINDOW}
CommittedYoungTokens ==
  SumSeq([i \in 1..Len(log) |-> IF log[i][1] < WINDOW THEN log[i][2] ELSE 0])

\* C3: a call commits only when the rpm_limit-th most recent earlier commit is at
\* least 60 seconds old (so the (R+1)-th call waits for the oldest of R calls to
\* leave the window), and an iteration of the wait loop that runs when fewer than
\* rpm_limit commits are younger than 60 seconds and the cost fits the token limit
\* ends the wait.
C3_BlocksUntilWindowPasses ==
  [][\A t \in Threads :
       /\ (rl_pc[t] = "record" /\ rl_pc'[t] = "idle" /\ Len(log) >= rpm_limit)
            => log[Len(log) - rpm_limit + 1][1] >= WINDOW
       /\ (rl_pc[t] = "loop" /\ rl_pc'[t] # "loop"
             /\ Cardinality(CommittedYoung) < rpm_limit
             /\ CommittedYoungTokens + rl_est[t] <= tpm_limit)
            => rl_pc'[t] = "record"]_vars

\* the (R+1)-th call has just committed, after a wait: the oldest call has left the
\* window and the second oldest has not
C3_Witness ==
  /\ Len(log) = rpm_limit + 1
  /\ log[rpm_limit + 1][1] = 0
  /\ log[1][1] >= WINDOW
  /\ log[2][1] < WINDOW
  /\ log[2][1] > 0

----------------------------------------------------------------------------
(* validate_translation applied alone: every variant, a file content of each
   combination of the properties the checks read, with and without source_text *)

CandLens == {0, 599, 600}
CandLines == {0, 5, 10, 11}
SourceLens == {0, 1000}
SourceLines == {0, 10, 11, 20, 21}

\* a content without a non-blank line has no phrase and no marker; repetition
\* is only looked for in a content of ten non-blank lines or more
Contents ==
  {f \in [len : CandLens, lines : CandLines, blank : BOOLEAN, refusal : BOOLEAN,
          halluc : BOOLEAN, marker : BOOLEAN, legacy : BOOLEAN] :
     /\ f.len = 0 => f.blank
     /\ f.blank <=> f.lines = 0
     /\ f.blank => ~f.refusal /\ ~f.halluc /\ ~f.marker /\ ~f.legacy
     /\ f.halluc => f.lines >= 10}

\* source_text: "" has no line
SourceTexts == {x \in [len : SourceLens, lines : SourceLines] : x.len = 0 => x.lines = 0}
NoSource == [len |-> 0, lines |-> 0]

ValidateCalls ==
  {c \in [fn : {"validate_translation"}, v : Variants, f : Contents, src : SourceTexts,
          withSource : BOOLEAN] : ~c.withSource => c.src = NoSource}

InitValidate ==
  /\ PipeQuiet /\ RLQuiet /\ MergeQuiet /\ GuiInit
  /\ fn_in \in ValidateCalls
  /\ fn_out = <<>>

CallValidate ==
  /\ fn_out = <<>>
  /\ fn_in.fn = "validate_translation"
  /\ fn_out' = <<validation_result(fn_in.v, fn_in.f, fn_in.src, fn_in.withSource)>>
  /\ UNCHANGED <<fn_in, rlVars, pipeVars, mergeVars, guiVars>>

SpecValidate == InitValidate /\ [][CallValidate]_vars

----------------------------------------------------------------------------
(* Claims about validate_translation *)

\* the six checks in the order the specification gives them, each as a
\* condition on the arguments of the call
CheckOrder == <<"empty", "refusal", "hallucination", "too_short", "lost_lines", "no_marker">>
Fails(check) ==
  CASE check = "empty"         -> fn_in.f.blank
    [] check = "refusal"       -> fn_in.f.refusal
    [] check = "hallucination" -> fn_in.f.halluc
    [] check = "too_short"     -> /\ fn_in.withSource
                                  /\ 10 * fn_in.f.len < 6 * fn_in.src.len
    [] check = "lost_lines"    -> /\ fn_in.withSource
                                  /\ fn_in.src.lines > (IF fn_in.v = "translate_epub" THEN 10 ELSE 20)
                                  /\ 2 * fn_in.f.lines < fn_in.src.lines
    [] check = "no_marker"     -> /\ ~fn_in.f.marker
                                  /\ ~(fn_in.v = "translate_epub" /\ fn_in.f.legacy)
FailingChecks == {i \in DOMAIN CheckOrder : Fails(CheckOrder[i])}
FirstFailing ==
  IF FailingChecks = {} THEN "ok"
  ELSE CheckOrder[CHOOSE i \in FailingChecks : \A j \in FailingChecks : i <= j]
Returned == fn_out # <<>>

\* C21: validate_translation accepts exactly when none of emptiness, refusal,
\* hallucination, length ratio, line retention and completion marker fails, and
\* otherwise the reason it reports is that of the first of them, in this order,
\* that fails
C21_FirstFailingCheck == Returned => fn_out[1] = FirstFailing

\* a short candidate without marker that also lost lines: reported as too short
C21_Witness ==
  /\ Returned
  /\ Fails("too_short") /\ Fails("lost_lines") /\ Fails("no_marker")
  /\ fn_out[1] = "too_short"

\* C22: a candidate that has neither <<END_OF_CHAPTER>> nor a legacy phrase the
\* variant accepts is rejected, with or without source text, whatever else it
\* holds
C22_NoMarkerRejected ==
  (Returned /\ ~fn_in.f.marker /\ (~fn_in.f.legacy \/ fn_in.v # "translate_epub"))
    => fn_out[1] # "ok"

\* a candidate that passes every other check, validated with its source
C22_Witness ==
  /\ Returned /\ fn_in.withSource /\ fn_in.src.len > 0
  /\ ~fn_in.f.marker
  /\ FailingChecks = {6}
  /\ fn_out[1] = "no_marker"

\* C23 as stated: a candidate shorter than 0.6 times its source is rejected
\* with the length-ratio reason
C23_ShortGivesRatioReason ==
  (Returned /\ fn_in.withSource /\ 10 * fn_in.f.len < 6 * fn_in.src.len)
    => fn_out[1] = "too_short"

\* C23 amended: a candidate shorter than 0.6 times its source is rejected, and
\* the reason is the length ratio when it is not blank and neither a refusal
\* nor a repetition is detected in it
C23_ShortRejected ==
  (Returned /\ fn_in.withSource /\ 10 * fn_in.f.len < 6 * fn_in.src.len)
    => /\ fn_out[1] # "ok"
       /\ (~fn_in.f.blank /\ ~fn_in.f.refusal /\ ~fn_in.f.halluc) => fn_out[1] = "too_short"

\* a short candidate that carries the marker and kept its lines
C23_Witness ==
  /\ Returned /\ fn_in.withSource
  /\ 10 * fn_in.f.len < 6 * fn_in.src.len
  /\ fn_in.f.marker
  /\ FailingChecks = {4}
  /\ fn_out[1] = "too_short"

\* C27: with a source of more than 20 non-blank lines (10 in translate_epub.py)
\* a candidate of fewer than half as many is rejected; with a source of fewer
\* lines, or without source, no candidate is rejected for its line count
C27_LineRetention ==
  Returned =>
    /\ ( /\ fn_in.withSource
         /\ fn_in.src.lines > (IF fn_in.v = "translate_epub" THEN 10 ELSE 20)
         /\ 2 * fn_in.f.lines < fn_in.src.lines ) => fn_out[1] # "ok"
    /\ ( \/ ~fn_in.withSource
         \/ fn_in.src.lines <= (IF fn_in.v = "translate_epub" THEN 10 ELSE 20) )
           => fn_out[1] # "lost_lines"

\* a candidate long enough and with the marker, rejected for its lines alone
C27_Witness ==
  /\ Returned
  /\ fn_in.f.marker
  /\ FailingChecks = {5}
  /\ fn_out[1] = "lost_lines"

----------------------------------------------------------------------------
(* check_refusal applied alone.  A text is a sequence of words, each in one
   letter case: "l" all lower case, "u" all upper case, "m" capitalised.  The
   word "I" and the word "AI" of the lists are in case "u", "As" is in "m". *)

Word(w, c) == [w |-> w, c |-> c]
Phrase(ws) == [i \in DOMAIN ws |-> Word(ws[i], "l")]

\* refusal_keywords of each variant, as written in its source
refusal_keywords(v) ==
  IF v = "translate_epub" THEN
    << <<Word("i", "u"), Word("cannot", "l"), Word("translate", "l")>>,
       <<Word("i", "u"), Word("can't", "l"), Word("translate", "l")>>,
       <<Word("i", "u"), Word("am", "l"), Word("unable", "l"), Word("to", "l"),
         Word("translate", "l")>>,
       <<Word("as", "m"), Word("an", "l"), Word("ai", "u"), Word("language", "l"),
         Word("model", "l")>>,
       Phrase(<<"violate", "my", "safety", "guidelines">>),
       Phrase(<<"against", "my", "content", "policy">>) >>
  ELSE IF v = "tr_cerebras" THEN
    << <<Word("i", "u"), Word("cannot", "l"), Word("translate", "l")>>,
       <<Word("i", "u"), Word("can't", "l"), Word("translate", "l")>>,
       Phrase(<<"unable", "to", "translate">>),
       <<Word("ai", "u"), Word("language", "l"), Word("model", "l")>>,
       Phrase(<<"content", "policy">>),
       Phrase(<<"safety", "guidelines">>) >>
  ELSE
    << <<Word("i", "u"), Word("cannot", "l"), Word("translate", "l")>>,
       <<Word("i", "u"), Word("can't", "l"), Word("translate", "l")>>,
       Phrase(<<"content", "policy">>),
       Phrase(<<"safety", "guidelines">>) >>

\* words without letters of two cases: brackets, and "benzhangwan", which stands
\* for the three CJK characters of the Chinese chapter-end mark
Caseless == {"(", ")", "benzhangwan"}

\* str.lower() and str.upper()
lower(text) == [i \in DOMAIN text |-> Word(text[i].w, "l")]
upper(text) ==
  [i \in DOMAIN text |-> IF text[i].w \in Caseless THEN text[i] ELSE Word(text[i].w, "u")]

\* `k in text` of two strings
In(k, text) == \E i \in 0..(Len(text) - Len(k)) : SubSeq(text, i + 1, i + Len(k)) = k

\* check_refusal(text): translate_epub.py tests keyword.lower() in lower_text,
\* tr_cerebras.py and uni.py test k in lower_text
check_refusal(v, text) ==
  LET lower_text == lower(text)
      keys == refusal_keywords(v)
  IN IF v = "translate_epub"
       THEN \E n \in DOMAIN keys : In(lower(keys[n]), lower_text)
       ELSE \E n \in DOMAIN keys : In(keys[n], lower_text)

\* the texts refused with: a phrase of the variant's list as written, in lower
\* case or in upper case, alone or inside a sentence; or no phrase of the list
Cases == {"written", "lower", "upper"}
Before == {<<>>, <<Word("sorry", "m"), Word("but", "l")>>}
After == {<<>>, <<Word("this", "l"), Word("chapter", "l")>>}
InCase(k, c) == IF c = "lower" THEN lower(k) ELSE IF c = "upper" THEN upper(k) ELSE k
RefusalCalls ==
  {c \in [fn : {"check_refusal"}, v : Variants, phrase : 0..6, case : Cases,
          before : Before, after : After] :
     /\ c.phrase <= Len(refusal_keywords(c.v))
     /\ c.phrase = 0 => c.case = "written"}
RefusalText(c) ==
  c.before \o (IF c.phrase = 0 THEN <<Word("chapter", "m"), Word("one", "l")>>
               ELSE InCase(refusal_keywords(c.v)[c.phrase], c.case)) \o c.after

InitRefusal ==
  /\ PipeQuiet /\ RLQuiet /\ MergeQuiet /\ GuiInit
  /\ fn_in \in RefusalCalls
  /\ fn_out = <<>>

CallRefusal ==
  /\ fn_out = <<>>
  /\ fn_in.fn = "check_refusal"
  /\ fn_out' = <<check_refusal(fn_in.v, RefusalText(fn_in))>>
  /\ UNCHANGED <<fn_in, rlVars, pipeVars, mergeVars, guiVars>>

SpecRefusal == InitRefusal /\ [][CallRefusal]_vars

\* C24: check_refusal returns true for every text that contains a phrase of the
\* variant's list, in whatever letter case the text has it
C24_RefusalAnyCase == (Returned /\ fn_in.phrase # 0) => fn_out[1] = TRUE

----------------------------------------------------------------------------
(* check_hallucination applied alone.  A text is the sequence of its stripped
   non-blank lines; a line is its content and whether it has more than five
   characters. *)

Line(id, long) == [id |-> id, long |-> long]

\* how often a line occurs, and Counter(lines).most_common(1): the line of the
\* highest count, the one met first among equals
Count(lines, l) == Cardinality({i \in DOMAIN lines : lines[i] = l})
FirstAt(lines, l) == CHOOSE i \in DOMAIN lines : lines[i] = l /\ \A j \in 1..(i - 1) : lines[j] # l
most_common(lines) ==
  CHOOSE l \in {lines[i] : i \in DOMAIN lines} :
    \A m \in {lines[i] : i \in DOMAIN lines} :
      \/ Count(lines, l) > Count(lines, m)
      \/ Count(lines, l) = Count(lines, m) /\ FirstAt(lines, l) <= FirstAt(lines, m)

\* check_hallucination on the lines of the text
check_hallucination(v, lines) ==
  IF Len(lines) < 10 THEN FALSE
  ELSE IF \E i \in 0..(Len(lines) - 6) :
            /\ i + 10 <= Len(lines)
            /\ SubSeq(lines, i + 1, i + 5) = SubSeq(lines, i + 6, i + 10)
            /\ v = "translate_epub" => lines[i + 1] = lines[i + 2]
       THEN TRUE
  ELSE IF v = "translate_epub"
       THEN LET line == most_common(lines)
            IN Count(lines, line) > 10 /\ line.long
  ELSE FALSE

\* the texts: a head of distinct lines, two blocks of five lines and a tail; or
\* one line n times, in a row or with a different line after each
Blocks ==
  { <<Line("a", TRUE), Line("b", TRUE), Line("c", TRUE), Line("d", TRUE), Line("e", TRUE)>>,
    <<Line("a", TRUE), Line("a", TRUE), Line("c", TRUE), Line("d", TRUE), Line("e", TRUE)>>,
    <<Line("a", TRUE), Line("a", TRUE), Line("a", TRUE), Line("a", TRUE), Line("a", TRUE)>>,
    <<Line("yes", FALSE), Line("no", FALSE), Line("a", TRUE), Line("b", TRUE), Line("c", TRUE)>> }
Others == <<"o1", "o2", "o3", "o4", "o5", "o6", "o7", "o8", "o9", "o10", "o11", "o12">>
Distinct(n) == [i \in 1..n |-> Line(Others[i], TRUE)]
Repeated(l, n, apart) ==
  IF apart THEN [i \in 1..(2 * n) |-> IF i % 2 = 1 THEN l ELSE Line(Others[i \div 2], TRUE)]
  ELSE [i \in 1..n |-> l]
HallucinationCalls ==
  [fn : {"check_hallucination"}, v : Variants, kind : {"blocks"}, head : 0..2,
   first : Blocks, second : Blocks, tail : 0..1]
  \cup
  [fn : {"check_hallucination"}, v : Variants, kind : {"repeated"},
   line : {Line("a", TRUE), Line("yes", FALSE)}, n : 9..12, apart : BOOLEAN]
HallucinationText(c) ==
  IF c.kind = "blocks"
    THEN Distinct(c.head) \o c.first \o c.second
         \o (IF c.tail = 1 THEN <<Line("o12", TRUE)>> ELSE <<>>)
    ELSE Repeated(c.line, c.n, c.apart)

InitHallucination ==
  /\ PipeQuiet /\ RLQuiet /\ MergeQuiet /\ GuiInit
  /\ fn_in \in HallucinationCalls
  /\ fn_out = <<>>

CallHallucination ==
  /\ fn_out = <<>>
  /\ fn_in.fn = "check_hallucination"
  /\ fn_out' = <<check_hallucination(fn_in.v, HallucinationText(fn_in))>>
  /\ UNCHANGED <<fn_in, rlVars, pipeVars, mergeVars, guiVars>>

SpecHallucination == InitHallucination /\ [][CallHallucination]_vars

\* five consecutive lines followed at once by the same five lines
WindowRepeated(lines) ==
  \E i \in 1..(Len(lines) - 9) : \A j \in 0..4 : lines[i + j] = lines[i + 5 + j]

\* some line occurs more than ten times in the text
LineRecurs(lines) == \E i \in DOMAIN lines : Count(lines, lines[i]) > 10

\* C25: check_hallucination returns true for every text in which five
\* consecutive lines are repeated verbatim in the five lines that follow
C25_WindowDetected ==
  (Returned /\ WindowRepeated(HallucinationText(fn_in))) => fn_out[1] = TRUE

\* C26: check_hallucination returns true for every text in which one line occurs
\* more than ten times
C26_RecurrenceDetected ==
  (Returned /\ LineRecurs(HallucinationText(fn_in))) => fn_out[1] = TRUE

----------------------------------------------------------------------------
(* filter_glossary applied alone.  A string is the sequence of its characters,
   a glossary dict is a function from its terms to their translations. *)

Chars == {"x", "y", "X"}
MaxText == 3
SourceStrings == UNION {[1..n -> Chars] : n \in 0..MaxText}
GlossaryTerms == {<<>>, <<"x">>, <<"x", "y">>, <<"X">>}
Glossaries == UNION {[d -> {"e1", "e2"}] : d \in SUBSET GlossaryTerms}

filter_glossary_All(text, full_glossary) == full_glossary

\* filter_glossary(text, full_glossary): a new dict of the items whose term is
\* `in text`
filter_glossary(text, full_glossary) ==
  [term \in {k \in DOMAIN full_glossary : In(k, text)} |-> full_glossary[term]]

FilterCalls == [fn : {"filter_glossary"}, text : SourceStrings, full_glossary : Glossaries]

InitFilter ==
  /\ PipeQuiet /\ RLQuiet /\ MergeQuiet /\ GuiInit
  /\ fn_in \in FilterCalls
  /\ fn_out = <<>>

\* the call returns the new dict; full_glossary is only iterated over
CallFilter ==
  /\ fn_out = <<>>
  /\ fn_in.fn = "filter_glossary"
  /\ fn_out' = [relevant |-> filter_glossary(fn_in.text, fn_in.full_glossary),
                full_glossary |-> fn_in.full_glossary]
  /\ UNCHANGED <<fn_in, rlVars, pipeVars, mergeVars, guiVars>>

SpecFilter == InitFilter /\ [][CallFilter]_vars

\* the term is text[i+1..j] for some i, j
OccursIn(term, text) ==
  \E i \in 0..Len(text), j \in 0..Len(text) : i <= j /\ SubSeq(text, i + 1, j) = term

\* C28: filter_glossary returns the entries of the glossary whose term occurs
\* in the text as a literal substring and no other, each with the translation
\* the glossary gives it, and leaves the glossary as it was
C28_FilterExact ==
  Returned =>
    /\ DOMAIN fn_out.relevant =
         {k \in DOMAIN fn_in.full_glossary : OccursIn(k, fn_in.text)}
    /\ \A k \in DOMAIN fn_out.relevant : fn_out.relevant[k] = fn_in.full_glossary[k]
    /\ fn_out.full_glossary = fn_in.full_glossary

\* a text with "x" and without "X" and "xy", a glossary of the three terms: only
\* the entry of "x" is returned
C28_Witness ==
  /\ Returned
  /\ DOMAIN fn_in.full_glossary = {<<"x">>, <<"x", "y">>, <<"X">>}
  /\ DOMAIN fn_out.relevant = {<<"x">>}
  /\ fn_out.relevant[<<"x">>] = "e2"

----------------------------------------------------------------------------
(* check_translations.py and validate_translation of translate_epub.py (called
   without source_text, as process_book calls it) on the same translated file.
   The content is a sequence of words as above; whether it has a repeated
   window of lines is given with it. *)

EndOfChapter == <<Word("<<end_of_chapter>>", "u")>>
Markers ==
  << EndOfChapter,
     Phrase(<<"(", "end", "of", "chapter", ")">>),
     Phrase(<<"end", "of", "chapter">>),
     Phrase(<<"(", "end", "of", "this", "chapter", ")">>),
     Phrase(<<"(", "benzhangwan", ")">>) >>
Bodies ==
  { <<>>,
    Phrase(<<"he", "left", "the", "hall">>),
    <<Word("i", "u"), Word("cannot", "l"), Word("translate", "l"), Word("this", "l")>> }

CheckCalls ==
  {c \in [fn : {"check_translations"}, body : Bodies, marker : 0..5, case : Cases,
          halluc : BOOLEAN] :
     /\ c.marker = 0 => c.case = "written"
     /\ c.halluc => c.body # <<>>}
CheckText(c) ==
  c.body \o (IF c.marker = 0 THEN <<>> ELSE InCase(Markers[c.marker], c.case))

\* what validate_translation of translate_epub.py reads in the content
Content(text, halluc) ==
  [len |-> Len(text), lines |-> IF text = <<>> THEN 0 ELSE 1,
   blank |-> text = <<>>,
   refusal |-> check_refusal("translate_epub", text),
   halluc |-> halluc,
   marker |-> In(EndOfChapter, text),
   legacy |-> \/ In(Markers[2], lower(text))
              \/ In(Markers[3], lower(text))]

\* the loop body of check_translations for one file: EMPTY and INCOMPLETE files
\* are appended to incomplete_chapters, whose numbers make the suggested
\* `--force --chapters` command
check_translations(text) ==
  IF text = <<>> THEN "EMPTY"
  ELSE IF /\ ~In(Markers[2], lower(text))
          /\ ~In(Markers[4], lower(text))
          /\ ~In(Markers[5], text)
       THEN "INCOMPLETE"
  ELSE "complete"

InitCheck ==
  /\ PipeQuiet /\ RLQuiet /\ MergeQuiet /\ GuiInit
  /\ fn_in \in CheckCalls
  /\ fn_out = <<>>

CallCheck ==
  /\ fn_out = <<>>
  /\ fn_in.fn = "check_translations"
  /\ fn_out' = [valid |-> validation_result("translate_epub",
                                            Content(CheckText(fn_in), fn_in.halluc),
                                            NoSource, FALSE) = "ok",
                status |-> check_translations(CheckText(fn_in))]
  /\ UNCHANGED <<fn_in, rlVars, pipeVars, mergeVars, guiVars>>

SpecCheck == InitCheck /\ [][CallCheck]_vars

\* C39: a file that validate_translation of translate_epub.py accepts without
\* source text is complete for check_translations.py: neither EMPTY nor
\* INCOMPLETE, hence not in the suggested command
C39_CheckersAgree == (Returned /\ fn_out.valid) => fn_out.status = "complete"


----------------------------------------------------------------------------
(* gui.TranslationApp: the Start button, the run_process thread and the      *)
(* callbacks it hands to the Tk main loop with root.after                    *)

\* launches of one session of the window
MaxLaunches == 3
\* callbacks waiting in the main loop at one time
MaxQueue == 3

\* contents of the directory entry and of the chapter-limit entry
Directories == {"", "library"}
LimitEntries == {"", "5", "five"}
\* int(self.limit_var.get()) raises ValueError
BadLimit(limit) == limit = "five"

\* exit codes of translate_epub.py
ExitCodes == {0, 1}

NoProcess == [state |-> "none", returncode |-> 0]
Running == [state |-> "running", returncode |-> 0]
Exited(code) == [state |-> "exited", returncode |-> code]

LogCall == [fn |-> "log", returncode |-> 0]
CompleteCall(code) == [fn |-> "on_process_complete", returncode |-> code]

\* the return code the except branch of run_process reports
ExceptCode == 0 - 1

\* a click on Start; a disabled button does not call its command
start_translation(directory, limit) ==
  /\ start_btn = "normal"
  /\ launches < MaxLaunches
  /\ IF directory = ""
       THEN UNCHANGED <<start_btn, open_site_btn, run_pc, launches>>
       ELSE /\ open_site_btn' = "disabled"
            /\ IF limit # "" /\ BadLimit(limit)
                 THEN /\ start_btn' = "normal"
                      /\ UNCHANGED <<run_pc, launches>>
                 ELSE /\ start_btn' = "disabled"
                      /\ run_pc' = "popen"
                      /\ launches' = launches + 1
  /\ UNCHANGED <<process, orphans, after_queue, zero_exits>>
  /\ UNCHANGED <<rlVars, pipeVars, mergeVars, fnVars>>

\* subprocess.Popen returns, or raises before a subprocess exists
Popen(ok) ==
  /\ run_pc = "popen"
  /\ IF ok
       THEN /\ process' = Running
            /\ run_pc' = "reading"
            /\ UNCHANGED after_queue
       ELSE /\ after_queue' = after_queue \o <<LogCall, CompleteCall(ExceptCode)>>
            /\ run_pc' = "none"
            /\ UNCHANGED process
  /\ UNCHANGED <<start_btn, open_site_btn, orphans, launches, zero_exits>>
  /\ UNCHANGED <<rlVars, pipeVars, mergeVars, fnVars>>

\* one pass of the loop over process.stdout: a line is handed to the main
\* loop, or reading or root.after raises and the except branch ends the
\* thread while the subprocess is still running
ReadLine(ok) ==
  /\ run_pc = "reading"
  /\ process.state = "running"
  /\ IF ok
       THEN /\ Len(after_queue) < MaxQueue
            /\ after_queue' = Append(after_queue, LogCall)
            /\ UNCHANGED <<run_pc, process, orphans>>
       ELSE /\ after_queue' = after_queue \o <<LogCall, CompleteCall(ExceptCode)>>
            /\ run_pc' = "none"
            /\ process' = NoProcess
            /\ orphans' = orphans + 1
  /\ UNCHANGED <<start_btn, open_site_btn, launches, zero_exits>>
  /\ UNCHANGED <<rlVars, pipeVars, mergeVars, fnVars>>

\* the subprocess ends: its stdout reaches end of file
ProcessExits(code) ==
  /\ run_pc = "reading"
  /\ process.state = "running"
  /\ process' = Exited(code)
  /\ run_pc' = "wait"
  /\ zero_exits' = IF code = 0 THEN zero_exits + 1 ELSE zero_exits
  /\ UNCHANGED <<start_btn, open_site_btn, orphans, after_queue, launches>>
  /\ UNCHANGED <<rlVars, pipeVars, mergeVars, fnVars>>

\* process.wait() returns and the thread reports the return code
Wait ==
  /\ run_pc = "wait"
  /\ after_queue' = Append(after_queue, CompleteCall(process.returncode))
  /\ run_pc' = "none"
  /\ process' = NoProcess
  /\ UNCHANGED <<start_btn, open_site_btn, orphans, launches, zero_exits>>
  /\ UNCHANGED <<rlVars, pipeVars, mergeVars, fnVars>>

\* a subprocess whose thread has ended comes to its own end
OrphanExits ==
  /\ orphans > 0
  /\ orphans' = orphans - 1
  /\ UNCHANGED <<start_btn, open_site_btn, run_pc, process, after_queue, launches,
                 zero_exits>>
  /\ UNCHANGED <<rlVars, pipeVars, mergeVars, fnVars>>

\* the main loop runs a queued log call
log_line ==
  /\ after_queue # <<>>
  /\ Head(after_queue).fn = "log"
  /\ after_queue' = Tail(after_queue)
  /\ UNCHANGED <<start_btn, open_site_btn, run_pc, process, orphans, launches,
                 zero_exits>>
  /\ UNCHANGED <<rlVars, pipeVars, mergeVars, fnVars>>

\* the main loop runs a queued on_process_complete(returncode)
on_process_complete ==
  /\ after_queue # <<>>
  /\ Head(after_queue).fn = "on_process_complete"
  /\ after_queue' = Tail(after_queue)
  /\ start_btn' = "normal"
  /\ open_site_btn' = IF Head(after_queue).returncode = 0 THEN "normal"
                      ELSE open_site_btn
  /\ UNCHANGED <<run_pc, process, orphans, launches, zero_exits>>
  /\ UNCHANGED <<rlVars, pipeVars, mergeVars, fnVars>>

InitGui == GuiInit /\ PipeQuiet /\ RLQuiet /\ MergeQuiet /\ FnQuiet

NextGui ==
  \/ \E directory \in Directories, limit \in LimitEntries : start_translation(directory, limit)
  \/ \E ok \in BOOLEAN : Popen(ok)
  \/ \E ok \in BOOLEAN : ReadLine(ok)
  \/ \E code \in ExitCodes : ProcessExits(code)
  \/ Wait
  \/ OrphanExits
  \/ log_line
  \/ on_process_complete

SpecGui == InitGui /\ [][NextGui]_vars

\* a launch has not yet been followed by its on_process_complete
Launched ==
  \/ run_pc # "none"
  \/ \E i \in 1..Len(after_queue) : after_queue[i].fn = "on_process_complete"

\* subprocesses started from the window that are running
Subprocesses == (IF process.state = "running" THEN 1 ELSE 0) + orphans

\* Start stays disabled from the launch of the thread to on_process_complete
StartDisabledWhileLaunched == Launched => start_btn = "disabled"

\* Open Website is enabled only after a run has exited with code 0
OpenSiteOnlyAfterZero == open_site_btn = "normal" => zero_exits > 0

\* C40: from the launch of the run_process thread until on_process_complete
\* runs the Start button is disabled, so at most one subprocess started from
\* the window runs at a time, and Open Website is enabled only after a run
\* that exited with code 0.
C40_GuiLifecycle ==
  /\ StartDisabledWhileLaunched
  /\ Subprocesses <= 1
  /\ OpenSiteOnlyAfterZero

====
